---------------------------- MODULE Spec2Model ----------------------------
(***************************************************************************)
(* Nexus backend: the agent loop engine (backend/agent/loop.py), the run   *)
(* registry (RunManager, backend/api/utils.py), the background run         *)
(* executor and the SSE event stream publisher (backend/api/routes.py).    *)
(*                                                                         *)
(* Everything runs on one asyncio event loop: the code between two         *)
(* suspension points (await / yield of the stream generator) is atomic, so *)
(* every action below is one such segment.                                 *)
(***************************************************************************)
EXTENDS Integers, Sequences, FiniteSets, TLC

(***************************************************************************)
(* Bounds of the model.                                                    *)
(***************************************************************************)
NumSubs == 2            \* concurrent stream connections on the run
MaxToolCalls == 2       \* tool requests in one backend response (engine runs)
MaxLogLen == 2          \* events in one log (registry calls)
MaxAdds == 4            \* calls of Memory.add_message
MaxLimit == 3           \* largest max_messages a Memory is constructed with

(***************************************************************************)
(* Program constants.                                                      *)
(***************************************************************************)
max_iterations == 2     \* AgentLoop.__init__: self.max_iterations

RunIds == {"r1", "r2"}
Subs == 1..NumSubs

(***************************************************************************)
(* RunManager: active_runs maps a run id to the run's dict                 *)
(* {status, events}.  Each operator takes the registry and returns the     *)
(* registry after the call.                                                *)
(***************************************************************************)
create_run_data(ar, run_id) ==
    [r \in (DOMAIN ar) \cup {run_id} |->
        IF r = run_id THEN [status |-> "running", events |-> <<>>] ELSE ar[r]]

\* an insertion at the head of the log
add_event_at_head(ar, run_id, event_type, data) ==
    IF run_id \in DOMAIN ar
    THEN [ar EXCEPT ![run_id].events =
              <<[event |-> event_type, data |-> data]>> \o @]
    ELSE ar

add_event(ar, run_id, event_type, data) ==
    IF run_id \in DOMAIN ar
    THEN [ar EXCEPT ![run_id].events =
              Append(@, [event |-> event_type, data |-> data])]
    ELSE ar

\* a status update that starts the entry's log afresh
update_status_restart(ar, run_id, status) ==
    IF run_id \in DOMAIN ar
    THEN [ar EXCEPT ![run_id] = [status |-> status, events |-> <<>>]]
    ELSE ar

\* a status update that creates the entry it does not find
update_status_upsert(ar, run_id, status) ==
    [r \in (DOMAIN ar) \cup {run_id} |->
        IF r = run_id
        THEN [status |-> status,
              events |-> IF r \in DOMAIN ar THEN ar[r].events ELSE <<>>]
        ELSE ar[r]]

update_status(ar, run_id, status) ==
    IF run_id \in DOMAIN ar
    THEN [ar EXCEPT ![run_id].status = status]
    ELSE ar

\* active_runs.get(run_id): an optional value, <<>> for None
get_run_data(ar, run_id) ==
    IF run_id \in DOMAIN ar THEN <<ar[run_id]>> ELSE <<>>

cleanup_run(ar, run_id) ==
    IF run_id \in DOMAIN ar
    THEN [r \in (DOMAIN ar) \ {run_id} |-> ar[r]]
    ELSE ar

\* a slice that starts one event late
get_events_since_after(ar, run_id, last_index) ==
    IF run_id \in DOMAIN ar
    THEN SubSeq(ar[run_id].events, last_index + 2, Len(ar[run_id].events))
    ELSE <<>>

\* events[last_index:] for last_index >= 0 (Python slice: empty beyond the tail)
get_events_since(ar, run_id, last_index) ==
    IF run_id \in DOMAIN ar
    THEN SubSeq(ar[run_id].events, last_index + 1, Len(ar[run_id].events))
    ELSE <<>>


(***************************************************************************)
(* Settings (backend/config.py).  The model fixes the deployment in which  *)
(* the reasoning backend and the tool upstreams are configured, so that    *)
(* their transport calls are made (and can fail).                          *)
(***************************************************************************)
OPENAI_API_KEY == "sk-key"
COEXISTAI_BASE_URL == "http://coexistai:8000"
RUNNER_BASE_URL == "http://runner:8080"

(***************************************************************************)
(* Strings that the code takes apart are sequences of atoms: a class name  *)
(* is the sequence of its capitalised words, a tool name the sequence of   *)
(* its parts.  Contents are sequences of text atoms; + is \o.              *)
(***************************************************************************)
lower(w) ==
    CASE w = "Web" -> "web" [] w = "Search" -> "search"
      [] w = "Browser" -> "browser" [] w = "Tool" -> "tool"
      [] OTHER -> w

RECURSIVE remove_atom(_, _)
remove_atom(seq, a) ==
    IF seq = <<>> THEN <<>>
    ELSE IF Head(seq) = a THEN remove_atom(Tail(seq), a)
    ELSE <<Head(seq)>> \o remove_atom(Tail(seq), a)

\* BaseTool.__init__: name or getattr(self, "name", None) or
\* self.__class__.__name__.lower().replace("tool", "")
BaseTool_name(explicit, class_attr, class_name) ==
    IF explicit /= <<>> THEN explicit
    ELSE IF class_attr /= <<>> THEN class_attr
    ELSE remove_atom([i \in 1..Len(class_name) |-> lower(class_name[i])], "tool")

NoUrl == [scheme |-> "", netloc |-> ""]
NoData == [error |-> <<>>, source |-> "", query |-> "", url |-> NoUrl]
NoResult == [name |-> <<>>, ok |-> FALSE, data |-> NoData]
NoArgs == [form |-> "none", query |-> "", url |-> NoUrl]
NoCall == [id |-> 0, name |-> <<>>, arguments |-> NoArgs]

ToolResult(name, ok, data) == [name |-> name, ok |-> ok, data |-> data]

\* The two default tools: class, name as BaseTool derives it (neither class
\* passes a name nor sets a class attribute), and the schema's function name.
WebSearchTool ==
    [class |-> "WebSearchTool",
     name |-> BaseTool_name(<<>>, <<>>, <<"Web", "Search", "Tool">>),
     schema_name |-> <<"web", "_", "search">>]

BrowserTool ==
    [class |-> "BrowserTool",
     name |-> BaseTool_name(<<>>, <<>>, <<"Browser", "Tool">>),
     schema_name |-> <<"browser">>]

get_default_tools == <<WebSearchTool, BrowserTool>>

\* BrowserTool._is_valid_url: all([result.scheme, result.netloc])
is_valid_url(url) == url.scheme /= "" /\ url.netloc /= ""

\* WebSearchTool._get_stub_result / BrowserTool._get_stub_result
web_stub_result(tool, query) ==
    ToolResult(tool.name, TRUE,
               [error |-> <<>>, source |-> "stub", query |-> query, url |-> NoUrl])

browser_stub_result(tool, url) ==
    ToolResult(tool.name, TRUE,
               [error |-> <<>>, source |-> "stub", query |-> "", url |-> url])

\* Whether the tool call reaches its transport call (and so suspends).
reaches_upstream(tool, kwargs) ==
    IF tool.class = "WebSearchTool"
    THEN kwargs.query /= "" /\ COEXISTAI_BASE_URL /= ""
    ELSE kwargs.url /= NoUrl /\ is_valid_url(kwargs.url) /\ RUNNER_BASE_URL /= ""

\* WebSearchTool.__call__; upstream is the outcome of _search_with_coexistai
\* ("ok", or "fail" for a transport error, timeout or non-200 response).
WebSearchTool_call(tool, kwargs, upstream) ==
    IF kwargs.query = ""
    THEN ToolResult(tool.name, FALSE,
                    [NoData EXCEPT !.error = <<"Query parameter is required">>])
    ELSE IF COEXISTAI_BASE_URL /= "" /\ upstream = "ok"
    THEN ToolResult(tool.name, TRUE,
                    [error |-> <<>>, source |-> "coexistai",
                     query |-> kwargs.query, url |-> NoUrl])
    ELSE web_stub_result(tool, kwargs.query)

\* BrowserTool.__call__; upstream is the outcome of _browse_with_runner.
BrowserTool_call(tool, kwargs, upstream) ==
    IF kwargs.url = NoUrl
    THEN ToolResult(tool.name, FALSE,
                    [NoData EXCEPT !.error = <<"URL parameter is required">>])
    ELSE IF ~is_valid_url(kwargs.url)
    THEN ToolResult(tool.name, FALSE,
                    [NoData EXCEPT !.error = <<"Invalid URL format">>])
    ELSE IF RUNNER_BASE_URL /= "" /\ upstream = "ok"
    THEN ToolResult(tool.name, TRUE,
                    [error |-> <<>>, source |-> "runner",
                     query |-> "", url |-> kwargs.url])
    ELSE browser_stub_result(tool, kwargs.url)

tool_call_body(tool, kwargs, upstream) ==
    IF tool.class = "WebSearchTool"
    THEN WebSearchTool_call(tool, kwargs, upstream)
    ELSE BrowserTool_call(tool, kwargs, upstream)

\* _execute_tool_call, lines 222-227: first tool whose name equals the
\* requested function name; 0 when there is none.
find_tool(tools, function_name) ==
    IF \E i \in 1..Len(tools) : tools[i].name = function_name
    THEN CHOOSE i \in 1..Len(tools) :
            /\ tools[i].name = function_name
            /\ \A j \in 1..(i - 1) : tools[j].name /= function_name
    ELSE 0

(***************************************************************************)
(* AgentLoop._execute_agent_loop as a resumable computation.  The loop's   *)
(* locals are the fields of a record L; pc is where the coroutine is       *)
(* suspended:                                                              *)
(*   "backend"  awaiting _call_openai_api (line 114)                       *)
(*   "tool"     awaiting the tool call for tool_calls[idx] (line 238)  *)
(*   "returned" the loop returned final_content                            *)
(*   "raised"   an exception left the loop                                 *)
(***************************************************************************)
SYSTEM_PROMPT == <<"You are a helpful agent. Use tools when needed. Stop when done.">>
FallbackContent == <<"I've completed the available iterations.">>

Message(role, content) ==
    [role |-> role, content |-> content, tool_calls |-> <<>>,
     tool_call_id |-> 0, data |-> NoData]

LoopEvent(type, content, tool_call, result) ==
    [type |-> type, content |-> content, tool_call |-> tool_call, result |-> result]

IdleLoop ==
    [pc |-> "idle", iteration |-> 0, current_messages |-> <<>>, events |-> <<>>,
     tool_calls |-> <<>>, idx |-> 0, final_content |-> <<>>,
     backend_calls |-> 0, exc |-> <<>>]

\* a loop test that admits one round more than the budget
more_rounds_inclusive(L) == L.iteration <= max_iterations

\* Line 108: the while condition.
more_rounds(L) == L.iteration < max_iterations

\* Lines 108-116: the loop test and, when it passes, the next backend call.
\* Lines 148-151: the fallback completion once the rounds are used up.
loop_head(L) ==
    IF more_rounds(L)
    THEN [L EXCEPT !.iteration = @ + 1, !.backend_calls = @ + 1, !.pc = "backend"]
    ELSE [L EXCEPT !.final_content = FallbackContent,
                   !.events = Append(@, LoopEvent("message", FallbackContent,
                                                  NoCall, NoResult)),
                   !.pc = "returned"]

\* Lines 102-106 and the first pass through the loop head.
execute_agent_loop_start(messages) ==
    loop_head([IdleLoop EXCEPT !.current_messages = messages])

\* a loop that records only the results that succeeded
tool_done_unless_failed(L, tool_result) ==
    IF tool_result.ok
    THEN [L EXCEPT !.events = Append(@, LoopEvent("tool_result", <<>>, NoCall, tool_result)),
                   !.current_messages =
                       Append(@, [role |-> "tool", content |-> <<>>, tool_calls |-> <<>>,
                                  tool_call_id |-> L.tool_calls[L.idx].id,
                                  data |-> tool_result.data]),
                   !.idx = @ + 1]
    ELSE [L EXCEPT !.idx = @ + 1]

\* Lines 139-146: record the result of tool_calls[idx] and move to the next.
tool_done(L, tool_result) ==
    [L EXCEPT !.events = Append(@, LoopEvent("tool_result", <<>>, NoCall, tool_result)),
              !.current_messages =
                  Append(@, [role |-> "tool", content |-> <<>>, tool_calls |-> <<>>,
                             tool_call_id |-> L.tool_calls[L.idx].id,
                             data |-> tool_result.data]),
              !.idx = @ + 1]

\* Lines 135-138 with the part of _execute_tool_call that runs before its
\* await (lines 217-238): the tool_call event, json.loads of the arguments
\* (outside the try), the lookup, the not-found result, and the failures of
\* the tool call that need no transport call.
RECURSIVE run_tool_calls(_)

\* a tool call that is started and not awaited: the loop goes on to the next
\* request at once
await_tool_detached(L) == run_tool_calls([L EXCEPT !.idx = @ + 1])

\* Line 238: the loop is suspended until the tool's transport call ends.
await_tool(L) == [L EXCEPT !.pc = "tool"]

\* an exception of the tool call that is left to propagate out of the loop
tool_raised_propagated(L, exc) == [L EXCEPT !.pc = "raised", !.exc = exc]

\* Lines 241-247: the except branch of _execute_tool_call turns an exception
\* of the tool call into a failed result, which the loop records.
tool_raised(L, exc) ==
    run_tool_calls(tool_done(L, ToolResult(L.tool_calls[L.idx].name, FALSE,
                                           [NoData EXCEPT !.error = exc])))

run_tool_calls(L) ==
    IF L.idx > Len(L.tool_calls)
    THEN loop_head(L)
    ELSE LET tool_call == L.tool_calls[L.idx]
             function_name == tool_call.name
             arguments == tool_call.arguments
             L1 == [L EXCEPT !.events =
                        Append(@, LoopEvent("tool_call", <<>>, tool_call, NoResult))]
             t == find_tool(get_default_tools, function_name)
         IN  IF arguments.form = "invalid"
             THEN [L1 EXCEPT !.pc = "raised", !.exc = <<"JSONDecodeError">>]
             ELSE IF t = 0
             THEN run_tool_calls(tool_done(L1,
                      ToolResult(function_name, FALSE,
                          [NoData EXCEPT !.error =
                              <<"Tool '">> \o function_name \o <<"' not found">>])))
             ELSE IF arguments.form /= "object"
             THEN tool_raised(L1, <<"TypeError">>)
             ELSE IF reaches_upstream(get_default_tools[t], arguments)
             THEN await_tool(L1)
             ELSE run_tool_calls(tool_done(L1,
                      tool_call_body(get_default_tools[t], arguments, "none")))

\* Resumption of line 238 with the outcome of the tool's transport call.
on_tool_outcome(L, upstream) ==
    LET tool_call == L.tool_calls[L.idx]
        t == find_tool(get_default_tools, tool_call.name)
    IN  run_tool_calls(tool_done(L,
            tool_call_body(get_default_tools[t], tool_call.arguments, upstream)))

\* Lines 127-134: the assistant message with the tool requests goes into the
\* history, and the for loop starts at the first request.
begin_tool_round(L, response) ==
    [L EXCEPT !.current_messages =
                  Append(@, [role |-> "assistant",
                             content |-> response.content,
                             tool_calls |-> response.tool_calls,
                             tool_call_id |-> 0, data |-> NoData]),
              !.tool_calls = response.tool_calls,
              !.idx = 1]

\* a failed backend call that is swallowed: the loop goes on to its next round
backend_call_failed_retry(L) == loop_head(L)

\* Lines 169-178: _call_openai_api raises, and nothing in the loop catches it.
backend_call_failed(L) == [L EXCEPT !.pc = "raised", !.exc = <<"OpenAI API failed">>]

\* Resumption of line 114 with the backend's response (lines 119-132), or with
\* the exception of the call.
on_backend_response(L, response) ==
    IF response.kind = "fail"
    THEN backend_call_failed(L)
    ELSE IF response.tool_calls = <<>>
    THEN [L EXCEPT !.final_content = response.content,
                   !.events = Append(@, LoopEvent("message", response.content,
                                                  NoCall, NoResult)),
                   !.pc = "returned"]
    ELSE run_tool_calls(begin_tool_round(L, response))

\* Lines 135-146 with the value _execute_tool_call returns given: results[i]
\* is the ToolResult of the round's i-th request.
RECURSIVE record_tool_results(_, _)
record_tool_results(L, results) ==
    IF L.idx > Len(L.tool_calls)
    THEN loop_head(L)
    ELSE record_tool_results(
             tool_done([L EXCEPT !.events =
                           Append(@, LoopEvent("tool_call", <<>>,
                                               L.tool_calls[L.idx], NoResult))],
                       results[L.idx]),
             results)

\* One round of the loop (lines 114-146) on a backend response and the
\* results of its tool requests.
round_with_results(L, response, results) ==
    IF response.kind = "fail" \/ response.tool_calls = <<>>
    THEN on_backend_response(L, response)
    ELSE record_tool_results(begin_tool_round(L, response), results)

(***************************************************************************)
(* The durable store: the runs table (db/models.py, Run) and the thread's  *)
(* messages.                                                               *)
(***************************************************************************)
\* Run.__table_args__: CheckConstraint on status
check_run_status == {"queued", "running", "completed", "error"}

\* update_run_in_db (utils.py): sets status (and result when given) and
\* commits; the commit raises when the row violates check_run_status or when
\* the store is down (fault), and then the row is unchanged.  A missing run
\* returns False without raising.  An optional value is a sequence of
\* length 0 (None) or 1.
update_run_in_db(db, run_id, status, result, fault) ==
    IF run_id \notin DOMAIN db
    THEN [db |-> db, raised |-> FALSE]
    ELSE IF fault \/ status \notin check_run_status
    THEN [db |-> db, raised |-> TRUE]
    ELSE [db |-> [db EXCEPT ![run_id].status = status,
                            ![run_id].result = IF result /= <<>> THEN result ELSE @],
          raised |-> FALSE]

\* create_run_with_defaults
create_run_with_defaults(db, run_id, status) ==
    [r \in (DOMAIN db) \cup {run_id} |->
        IF r = run_id THEN [status |-> status, result |-> <<>>] ELSE db[r]]

\* sanitize_content: strip, then truncate to max_length atoms plus "..."
sanitize_max_length == 10000

RECURSIVE lstrip(_)
lstrip(c) == IF c /= <<>> /\ Head(c) = " " THEN lstrip(Tail(c)) ELSE c

RECURSIVE rstrip(_)
rstrip(c) ==
    IF c /= <<>> /\ c[Len(c)] = " " THEN rstrip(SubSeq(c, 1, Len(c) - 1)) ELSE c

sanitize_content(content) ==
    LET sanitized == rstrip(lstrip(content))
    IN  IF Len(sanitized) > sanitize_max_length
        THEN SubSeq(sanitized, 1, sanitize_max_length) \o <<"...">>
        ELSE sanitized

(***************************************************************************)
(* execute_agent_run (routes.py): what the background task does with the   *)
(* responses the agent loop yields.                                        *)
(***************************************************************************)
NoPayload ==
    [content |-> <<>>, tool_call |-> NoCall, tool_result |-> NoResult,
     message |-> <<>>, status |-> "", error |-> <<>>]

Response(keys, content, tool_call, tool_result) ==
    [keys |-> keys, content |-> content, tool_call |-> tool_call,
     tool_result |-> tool_result]

\* AgentLoop.run: one response per event of the loop, yielded as the event
\* occurs (the method is not part of the sources; routes.py consumes it).
run_response(ev) ==
    CASE ev.type = "message" ->
            Response({"content"}, ev.content, NoCall, NoResult)
      [] ev.type = "tool_call" ->
            Response({"tool_call"}, <<>>, ev.tool_call, NoResult)
      [] OTHER ->
            Response({"tool_result"}, <<>>, NoCall, ev.result)

\* Lines 71-80: the body of the async for, on one response.
consume_response(ar, run_id, response) ==
    LET ar1 == IF "content" \in response.keys
               THEN add_event(ar, run_id, "token",
                              [NoPayload EXCEPT !.content = response.content])
               ELSE ar
        ar2 == IF "tool_call" \in response.keys
               THEN add_event(ar1, run_id, "tool",
                              [NoPayload EXCEPT !.tool_call = response.tool_call])
               ELSE ar1
    IN  IF "tool_result" \in response.keys
        THEN add_event(ar2, run_id, "tool",
                       [NoPayload EXCEPT !.tool_result = response.tool_result])
        ELSE ar2

RECURSIVE consume_responses(_, _, _)
consume_responses(ar, run_id, responses) ==
    IF responses = <<>> THEN ar
    ELSE consume_responses(consume_response(ar, run_id, Head(responses)),
                           run_id, Tail(responses))

\* Lines 85-88: concatenation of the contents of the collected responses.
RECURSIVE collect_final_content(_)
collect_final_content(responses) ==
    IF responses = <<>> THEN <<>>
    ELSE (IF "content" \in Head(responses).keys THEN Head(responses).content ELSE <<>>)
         \o collect_final_content(Tail(responses))

\* Lines 106-111: the except branch.  st is [ar, db, msgs].
run_failed(st, run_id, exc) ==
    LET error_message == <<"Error executing run: ">> \o exc
        ar1 == add_event(st.ar, run_id, "error",
                         [NoPayload EXCEPT !.error = error_message])
        ar2 == update_status(ar1, run_id, "failed")
        upd == update_run_in_db(st.db, run_id, "failed", <<error_message>>, FALSE)
    IN  [ar |-> ar2, db |-> upd.db, msgs |-> st.msgs]

\* an ending that sets the status without logging the closing event
run_finished_unannounced(st, run_id, responses, db_fault) ==
    LET final_content == sanitize_content(collect_final_content(responses))
        msgs1 == Append(st.msgs, [role |-> "assistant", content |-> final_content])
        upd == update_run_in_db(st.db, run_id, "completed", <<final_content>>, FALSE)
    IN  [ar |-> update_status(st.ar, run_id, "completed"),
         db |-> upd.db, msgs |-> msgs1]

\* Lines 84-104: after the loop's responses are exhausted.  db_fault is
\* whether the store fails at the update of line 103.
run_finished(st, run_id, responses, db_fault) ==
    LET final_content == sanitize_content(collect_final_content(responses))
        msgs1 == Append(st.msgs, [role |-> "assistant", content |-> final_content])
        ar1 == add_event(st.ar, run_id, "done",
                         [NoPayload EXCEPT !.message = final_content,
                                           !.status = "completed"])
        upd == update_run_in_db(st.db, run_id, "completed", <<final_content>>, db_fault)
    IN  IF upd.raised
        THEN run_failed([ar |-> ar1, db |-> upd.db, msgs |-> msgs1], run_id,
                        <<"OperationalError">>)
        ELSE [ar |-> update_status(ar1, run_id, "completed"),
              db |-> upd.db, msgs |-> msgs1]

(***************************************************************************)
(* State.                                                                  *)
(***************************************************************************)
VARIABLES
    active_runs,        \* RunManager.active_runs
    detached,           \* run dicts deleted from active_runs that a stream
                        \* still holds as run_data
    db_runs,            \* the runs table: run id -> [status, result]
    db_messages,        \* the thread's messages, oldest first
    driver,             \* which function executes the run
    exec_pc,            \* the run's task: "none", "queued", "running", "done"
    agent_loop,         \* the suspended _execute_agent_loop of the run
    agent_responses,    \* execute_agent_run: responses collected so far
    yielded,            \* start_run: the events yielded to its caller
    sub_pc,             \* per connection: where event_stream is suspended
    last_event_index,   \* per connection: event_stream's cursor
    new_events,         \* per connection: the slice being sent
    ev_idx,             \* per connection: position in new_events
    frames,             \* per connection: the frames pushed so far
    disconnected,       \* per connection: the client has gone
    attached_early,     \* per connection: attached before the run was terminal
    since_heartbeat,    \* per connection: seconds since last_heartbeat was set
    since_push,         \* per connection: seconds since its last frame was
                        \* pushed (since it was opened, before the first)
    store_fault,        \* a store failure has been injected
    backend_failed,     \* a call of the reasoning backend has failed
    upstream_failed,    \* ids of the tool requests whose transport call failed
    twin_loop,          \* a second _execute_agent_loop, for comparing two runs
    reg_out,            \* the last call made on the registry and what it returned
    memory,             \* the Memory instance: <<>> before it is constructed
    added               \* every message handed to Memory.add_message, in order

vars == <<active_runs, detached, db_runs, db_messages, driver, exec_pc,
          agent_loop, agent_responses, yielded, sub_pc, last_event_index, new_events,
          ev_idx, frames, disconnected, attached_early, since_heartbeat,
          since_push, store_fault, backend_failed, upstream_failed, twin_loop,
          reg_out, memory, added>>

engine_vars == <<driver, exec_pc, agent_loop, agent_responses, yielded>>
store_vars == <<db_runs, db_messages>>
memory_vars == <<memory, added>>
other_vars == <<twin_loop, reg_out, memory_vars>>
sub_vars == <<sub_pc, last_event_index, new_events, ev_idx, frames,
              disconnected, attached_early, since_heartbeat, since_push>>

TheRun == "r1"

\* no call has been made on the registry
NoRegCall == [op |-> "none", run_id |-> "", index |-> 0, found |-> FALSE, events |-> <<>>]
UserContent == <<"search for X">>

Terminal == {"completed", "failed"}

Init ==
    /\ active_runs = << >>
    /\ detached = << >>
    /\ db_runs = << >>
    /\ db_messages = <<>>
    /\ driver = "none"
    /\ exec_pc = "none"
    /\ agent_loop = IdleLoop
    /\ agent_responses = <<>>
    /\ yielded = <<>>
    /\ sub_pc = [s \in Subs |-> "idle"]
    /\ last_event_index = [s \in Subs |-> 0]
    /\ new_events = [s \in Subs |-> <<>>]
    /\ ev_idx = [s \in Subs |-> 0]
    /\ frames = [s \in Subs |-> <<>>]
    /\ disconnected = [s \in Subs |-> FALSE]
    /\ attached_early = [s \in Subs |-> FALSE]
    /\ since_heartbeat = [s \in Subs |-> 0]
    /\ since_push = [s \in Subs |-> 0]
    /\ store_fault = FALSE
    /\ backend_failed = FALSE
    /\ upstream_failed = {}
    /\ twin_loop = IdleLoop
    /\ reg_out = NoRegCall
    /\ memory = <<>>
    /\ added = <<>>

(***************************************************************************)
(* Inputs.  A backend response is plain content, a list of tool requests,  *)
(* or a failure of the call.  Request ids are fixed by round and position. *)
(***************************************************************************)
ArgQuery == [form |-> "object", query |-> "X", url |-> NoUrl]
ArgUrl == [form |-> "object", query |-> "",
           url |-> [scheme |-> "http", netloc |-> "example.com"]]
ArgBadUrl == [form |-> "object", query |-> "",
              url |-> [scheme |-> "", netloc |-> "example"]]
ArgEmpty == [form |-> "object", query |-> "", url |-> NoUrl]
ArgArray == [form |-> "array", query |-> "", url |-> NoUrl]
ArgInvalid == [form |-> "invalid", query |-> "", url |-> NoUrl]

Request(name, arguments) == [name |-> name, arguments |-> arguments]

\* the requests of the streaming runs: one tool that is found and reaches its
\* transport call, and the advertised search tool
StreamRequests ==
    { Request(<<"browser">>, ArgUrl), Request(<<"web", "_", "search">>, ArgQuery) }

\* the requests of the engine runs
EngineRequests ==
    { Request(<<"browser">>, ArgUrl),
      Request(<<"web", "search">>, ArgQuery),
      Request(<<"nonexistent", "_", "tool">>, ArgEmpty),
      Request(<<"browser">>, ArgInvalid),
      Request(<<"nonexistent", "_", "tool">>, ArgInvalid),
      Request(<<"browser">>, ArgArray) }

RequestSeqs(requests, n) ==
    UNION { [1..k -> requests] : k \in 1..n }

WithIds(reqs, iteration) ==
    [i \in 1..Len(reqs) |->
        [id |-> 10 * iteration + i, name |-> reqs[i].name,
         arguments |-> reqs[i].arguments]]

Responses(requests, n, iteration) ==
    { [kind |-> "fail", content |-> <<>>, tool_calls |-> <<>>],
      [kind |-> "ok", content |-> <<"answer">>, tool_calls |-> <<>>] }
    \cup { [kind |-> "ok", content |-> <<"I will use tools">>,
            tool_calls |-> WithIds(reqs, iteration)] :
           reqs \in RequestSeqs(requests, n) }

(***************************************************************************)
(* create_message (routes.py lines 129-160): stores the message and, for a *)
(* user message, creates the queued run and schedules execute_agent_run;   *)
(* for another role it records a run that is completed from the start.     *)
(***************************************************************************)
create_message ==
    /\ exec_pc = "none"
    /\ TheRun \notin DOMAIN db_runs
    /\ \E role \in {"user", "assistant"} :
        /\ db_messages' = Append(db_messages,
                                 [role |-> role, content |-> sanitize_content(UserContent)])
        /\ IF role = "user"
           THEN /\ db_runs' = create_run_with_defaults(db_runs, TheRun, "queued")
                /\ exec_pc' = "queued"
           ELSE /\ db_runs' = create_run_with_defaults(db_runs, TheRun, "completed")
                /\ exec_pc' = "done"
    /\ UNCHANGED <<active_runs, detached, driver, agent_loop, agent_responses,
                   yielded, sub_vars, store_fault, backend_failed,
                   upstream_failed, other_vars>>

(***************************************************************************)
(* execute_agent_run, lines 58-70: up to the first suspension of the       *)
(* async for (the loop's first backend call).                              *)
(***************************************************************************)
execute_agent_run_start ==
    /\ exec_pc = "queued"
    /\ driver' = "execute_agent_run"
    /\ exec_pc' = "running"
    /\ db_runs' = update_run_in_db(db_runs, TheRun, "running", <<>>, FALSE).db
    /\ active_runs' = create_run_data(active_runs, TheRun)
    /\ agent_loop' = execute_agent_loop_start(
                        << Message("system", SYSTEM_PROMPT),
                           Message("user", sanitize_content(UserContent)) >>)
    /\ agent_responses' = <<>>
    /\ UNCHANGED <<detached, db_messages, yielded, sub_vars, store_fault,
                   backend_failed,
                   upstream_failed, other_vars>>

\* The task's segment that follows a resumption of the loop which took it
\* from agent_loop to L2: the new events reach the async for body one by one;
\* a return runs lines 84-104, an exception lines 106-111.
executor_segment(L2) ==
    LET fresh == SubSeq(L2.events, Len(agent_loop.events) + 1, Len(L2.events))
        responses == [i \in 1..Len(fresh) |-> run_response(fresh[i])]
        ar1 == consume_responses(active_runs, TheRun, responses)
        all == agent_responses \o responses
        st == [ar |-> ar1, db |-> db_runs, msgs |-> db_messages]
    IN  /\ agent_loop' = L2
        /\ agent_responses' = all
        /\ UNCHANGED <<detached, driver, yielded, sub_vars>>
        /\ IF L2.pc = "returned"
           THEN \E fault \in BOOLEAN :
                    LET fin == run_finished(st, TheRun, all, fault)
                    IN  /\ active_runs' = fin.ar
                        /\ db_runs' = fin.db
                        /\ db_messages' = fin.msgs
                        /\ store_fault' = (store_fault \/ fault)
                        /\ exec_pc' = "done"
           ELSE IF L2.pc = "raised"
           THEN LET fin == run_failed(st, TheRun, L2.exc)
                IN  /\ active_runs' = fin.ar
                    /\ db_runs' = fin.db
                    /\ db_messages' = fin.msgs
                    /\ exec_pc' = "done"
                    /\ UNCHANGED store_fault
           ELSE /\ active_runs' = ar1
                /\ UNCHANGED <<db_runs, db_messages, exec_pc, store_fault>>

(***************************************************************************)
(* start_run (loop.py lines 256-304) with run_agent (lines 37-56): the     *)
(* other function that executes a run.  It works on the store only.        *)
(***************************************************************************)
history_limit == 20

\* the last n elements of a sequence
last_n(seq, n) ==
    IF Len(seq) <= n THEN seq ELSE SubSeq(seq, Len(seq) - n + 1, Len(seq))

\* _load_conversation_history (lines 58-80): the newest 20 messages, put
\* back into chronological order, after the system directive
load_conversation_history(msgs) ==
    LET recent == last_n(msgs, history_limit)
    IN  <<Message("system", SYSTEM_PROMPT)>>
        \o [i \in 1..Len(recent) |-> Message(recent[i].role, recent[i].content)]

\* _update_run_status (lines 307-325): a failed commit is logged and rolled
\* back
update_run_status(db, run_id, status) ==
    update_run_in_db(db, run_id, status, <<>>, FALSE).db

\* start_run lines 274-282: the newest user message of the thread
last_user_message(msgs) ==
    LET users == { i \in 1..Len(msgs) : msgs[i].role = "user" }
    IN  msgs[CHOOSE i \in users : \A j \in users : j <= i]

\* lines 256-290 and run_agent lines 41-51, up to the loop's first backend call
start_run_begin ==
    /\ exec_pc = "queued"
    /\ driver' = "start_run"
    /\ exec_pc' = "running"
    /\ db_runs' = update_run_status(db_runs, TheRun, "running")
    /\ agent_loop' = execute_agent_loop_start(
                        Append(load_conversation_history(db_messages),
                               Message("user", last_user_message(db_messages).content)))
    /\ UNCHANGED <<active_runs, detached, db_messages, agent_responses, yielded,
                   sub_vars, store_fault, backend_failed,
                   upstream_failed, other_vars>>

\* a return of the loop: run_agent lines 53-56 and start_run lines 292-299;
\* an exception: start_run lines 301-304
start_run_segment(L2) ==
    /\ agent_loop' = L2
    /\ UNCHANGED <<active_runs, detached, driver, agent_responses, sub_vars,
                   store_fault>>
    /\ IF L2.pc = "returned"
       THEN /\ db_messages' = Append(db_messages,
                                 [role |-> "assistant", content |-> L2.final_content])
            /\ yielded' = L2.events
                          \o << LoopEvent("done", <<>>, NoCall, NoResult),
                                LoopEvent("run_completed", L2.final_content,
                                          NoCall, NoResult) >>
            /\ db_runs' = update_run_status(db_runs, TheRun, "completed")
            /\ exec_pc' = "done"
       ELSE IF L2.pc = "raised"
       THEN /\ db_runs' = update_run_status(db_runs, TheRun, "error")
            /\ yielded' = << LoopEvent("error", L2.exc, NoCall, NoResult) >>
            /\ exec_pc' = "done"
            /\ UNCHANGED db_messages
       ELSE UNCHANGED <<db_runs, db_messages, yielded, exec_pc>>

run_segment(L2) ==
    IF driver = "execute_agent_run" THEN executor_segment(L2) ELSE start_run_segment(L2)

\* The reasoning backend answers the call of line 114.
BackendRespond(requests, n) ==
    /\ exec_pc = "running"
    /\ agent_loop.pc = "backend"
    /\ \E response \in Responses(requests, n, agent_loop.iteration) :
          /\ backend_failed' = (backend_failed \/ response.kind = "fail")
          /\ UNCHANGED <<upstream_failed, other_vars>>
          /\ run_segment(on_backend_response(agent_loop, response))

\* The tool's transport call of line 238 ends.
ToolOutcome ==
    /\ exec_pc = "running"
    /\ agent_loop.pc = "tool"
    /\ \E upstream \in {"ok", "fail"} :
          /\ upstream_failed' =
                 IF upstream = "fail"
                 THEN upstream_failed \cup {agent_loop.tool_calls[agent_loop.idx].id}
                 ELSE upstream_failed
          /\ run_segment(on_tool_outcome(agent_loop, upstream))
    /\ UNCHANGED <<backend_failed, other_vars>>

(***************************************************************************)
(* get_run_events.event_stream (routes.py lines 175-251), one generator    *)
(* per connection.  sub_pc is where the generator is suspended:            *)
(*   "idle"            no connection yet                                   *)
(*   "check"           started, before its first pass through the loop     *)
(*   "sleep"           in asyncio.sleep (line 240), the connection open    *)
(*   "yield_event"     at the yield of the frame of new_events[ev_idx]     *)
(*   "yield_done"      at the yield of the terminal frame                  *)
(*   "yield_heartbeat" at the yield of a heartbeat frame                   *)
(*   "yield_error"     at the yield of the error frame of the except branch*)
(*   "closed"          the generator has finished (finally has run)        *)
(* The two yields of one frame are one push.  Time is counted in seconds:  *)
(* since_heartbeat is time.time() - last_heartbeat, which the code compares*)
(* with the interval; both clocks stop counting at the interval.           *)
(***************************************************************************)
Frame(label, type, data, status, message) ==
    [label |-> label, type |-> type, data |-> data, status |-> status,
     message |-> message]

\* lines 196-202
EventFrame(event) == Frame(event.event, event.event, event.data, "", <<>>)
\* lines 207-212 (no message) and lines 219-225 (with message)
TerminalFrame(status, message) == Frame("done", "run_completed", NoPayload, status, message)
\* lines 243-248
ErrorFrame(message) == Frame("error", "error", NoPayload, "", <<message>>)
\* lines 231-236; the timestamp is the time of the push
HeartbeatFrame == Frame("heartbeat", "heartbeat", NoPayload, "", <<>>)

\* line 230: the heartbeat interval, in seconds
heartbeat_interval == 15

\* the connection is open: its generator is suspended somewhere
Attached(s) ==
    sub_pc[s] \in {"check", "sleep", "yield_event", "yield_done", "yield_heartbeat",
                   "yield_error"}

\* the dict a stream holds as run_data: the registry's, or the deleted one
held_run_data(run_id) ==
    IF run_id \in DOMAIN active_runs THEN active_runs[run_id] ELSE detached[run_id]

\* a liveness test that never sees the client gone
is_disconnected_never(s) == FALSE

\* line 185: request.is_disconnected()
is_disconnected(s) == disconnected[s]

\* lines 229-240: the heartbeat when it is due, then the sleep.
\* last_heartbeat becomes the time of the push (line 237 runs when the
\* generator is resumed, with current_time taken before the yield).
heartbeat(s) ==
    IF since_heartbeat[s] >= heartbeat_interval
    THEN /\ frames' = [frames EXCEPT ![s] = Append(@, HeartbeatFrame)]
         /\ sub_pc' = [sub_pc EXCEPT ![s] = "yield_heartbeat"]
         /\ since_heartbeat' = [since_heartbeat EXCEPT ![s] = 0]
    ELSE /\ sub_pc' = [sub_pc EXCEPT ![s] = "sleep"]
         /\ UNCHANGED <<frames, since_heartbeat>>

\* lines 205-213 and 228-240: after the for loop, on the dict run_data
\* refers to; the terminal frame, or the heartbeat and the sleep
after_events(s, run_data) ==
    IF run_data.status \in {"completed", "failed"}
    THEN /\ frames' = [frames EXCEPT ![s] = Append(@, TerminalFrame(run_data.status, <<>>))]
         /\ sub_pc' = [sub_pc EXCEPT ![s] = "yield_done"]
         /\ UNCHANGED since_heartbeat
    ELSE heartbeat(s)

\* a fallback that sends the terminal frame and goes on polling
durable_terminal_keep_open(s, run) ==
    /\ frames' = [frames EXCEPT ![s] =
                     Append(@, TerminalFrame(run.status,
                                   IF run.result \in {<<>>, << <<>> >>}
                                   THEN <<"Run completed">>
                                   ELSE run.result[1]))]
    /\ sub_pc' = [sub_pc EXCEPT ![s] = "sleep"]
    /\ UNCHANGED since_heartbeat

\* lines 217-226: the terminal frame made from the stored run, and the break
durable_terminal(s, run) ==
    /\ frames' = [frames EXCEPT ![s] =
                     Append(@, TerminalFrame(run.status,
                                   IF run.result \in {<<>>, << <<>> >>}
                                   THEN <<"Run completed">>
                                   ELSE run.result[1]))]
    /\ sub_pc' = [sub_pc EXCEPT ![s] = "yield_done"]
    /\ UNCHANGED since_heartbeat

\* the clock of the connection's last push, which a step restarts when it
\* pushes a frame
push_clock(s) ==
    since_push' = IF frames'[s] /= frames[s]
                  THEN [since_push EXCEPT ![s] = 0]
                  ELSE since_push

\* get_run_events lines 170-181: the run must exist in the store.
\* Connections are interchangeable, so they are numbered in the order in
\* which they attach.
Attach(s) ==
    /\ sub_pc[s] = "idle"
    /\ \A t \in Subs : t < s => sub_pc[t] /= "idle"
    /\ TheRun \in DOMAIN db_runs
    /\ sub_pc' = [sub_pc EXCEPT ![s] = "check"]
    /\ last_event_index' = [last_event_index EXCEPT ![s] = 0]
    /\ since_heartbeat' = [since_heartbeat EXCEPT ![s] = 0]
    /\ since_push' = [since_push EXCEPT ![s] = 0]
    /\ attached_early' = [attached_early EXCEPT ![s] = (exec_pc /= "done")]
    /\ UNCHANGED <<active_runs, detached, store_vars, engine_vars, new_events,
                   ev_idx, frames, disconnected, store_fault, backend_failed,
                   upstream_failed, other_vars>>

\* lines 185-240: one pass through the loop with the client still connected,
\* up to its first suspension
Poll(s) ==
    /\ sub_pc[s] \in {"check", "sleep"}
    /\ ~is_disconnected(s)
    /\ LET run_data == get_run_data(active_runs, TheRun)
       IN  IF run_data /= <<>>
           THEN LET fresh == get_events_since(active_runs, TheRun, last_event_index[s])
                IN  IF fresh /= <<>>
                    THEN /\ new_events' = [new_events EXCEPT ![s] = fresh]
                         /\ ev_idx' = [ev_idx EXCEPT ![s] = 1]
                         /\ frames' = [frames EXCEPT ![s] = Append(@, EventFrame(fresh[1]))]
                         /\ sub_pc' = [sub_pc EXCEPT ![s] = "yield_event"]
                         /\ UNCHANGED since_heartbeat
                    ELSE /\ after_events(s, run_data[1])
                         /\ UNCHANGED <<new_events, ev_idx>>
           ELSE \E refresh_fails \in BOOLEAN :
                    /\ UNCHANGED <<new_events, ev_idx>>
                    /\ IF refresh_fails
                       THEN /\ frames' = [frames EXCEPT ![s] =
                                            Append(@, ErrorFrame(<<"OperationalError">>))]
                            /\ sub_pc' = [sub_pc EXCEPT ![s] = "yield_error"]
                            /\ UNCHANGED since_heartbeat
                       ELSE IF db_runs[TheRun].status \in {"completed", "failed"}
                       THEN durable_terminal(s, db_runs[TheRun])
                       ELSE heartbeat(s)
    /\ push_clock(s)
    /\ UNCHANGED <<active_runs, detached, store_vars, engine_vars,
                   last_event_index, disconnected, attached_early, store_fault,
                   backend_failed,
                   upstream_failed, other_vars>>

\* lines 203-213: the generator is resumed after the frame of
\* new_events[ev_idx] was sent
Resume(s) ==
    /\ sub_pc[s] = "yield_event"
    /\ ~disconnected[s]
    /\ last_event_index' = [last_event_index EXCEPT ![s] = @ + 1]
    /\ IF ev_idx[s] < Len(new_events[s])
       THEN /\ ev_idx' = [ev_idx EXCEPT ![s] = @ + 1]
            /\ frames' = [frames EXCEPT ![s] =
                            Append(@, EventFrame(new_events[s][ev_idx[s] + 1]))]
            /\ UNCHANGED <<sub_pc, new_events, since_heartbeat>>
       ELSE /\ after_events(s, held_run_data(TheRun))
            /\ new_events' = [new_events EXCEPT ![s] = <<>>]
            /\ ev_idx' = [ev_idx EXCEPT ![s] = 0]
    /\ push_clock(s)
    /\ UNCHANGED <<active_runs, detached, store_vars, engine_vars,
                   disconnected, attached_early, store_fault, backend_failed,
                   upstream_failed, other_vars>>

\* lines 237-240: the generator is resumed after a heartbeat frame was sent
ResumeHeartbeat(s) ==
    /\ sub_pc[s] = "yield_heartbeat"
    /\ ~disconnected[s]
    /\ sub_pc' = [sub_pc EXCEPT ![s] = "sleep"]
    /\ UNCHANGED <<active_runs, detached, store_vars, engine_vars,
                   last_event_index, new_events, ev_idx, frames, disconnected,
                   attached_early, since_heartbeat, since_push, store_fault,
                   backend_failed, upstream_failed, other_vars>>

\* lines 249-251: finally; the generator's locals go with it
stream_finally(s) ==
    /\ active_runs' = cleanup_run(active_runs, TheRun)
    /\ detached' = IF TheRun \in DOMAIN active_runs
                   THEN [r \in {TheRun} |-> active_runs[TheRun]]
                   ELSE detached
    /\ sub_pc' = [sub_pc EXCEPT ![s] = "closed"]
    /\ new_events' = [new_events EXCEPT ![s] = <<>>]
    /\ ev_idx' = [ev_idx EXCEPT ![s] = 0]
    /\ since_heartbeat' = [since_heartbeat EXCEPT ![s] = 0]
    /\ since_push' = [since_push EXCEPT ![s] = 0]
    /\ UNCHANGED <<store_vars, engine_vars, last_event_index, frames,
                   attached_early, store_fault, backend_failed,
                   upstream_failed, other_vars>>

\* the generator is resumed after the terminal frame (break, line 213 or
\* 226) or after the error frame (end of the except branch)
Close(s) ==
    /\ sub_pc[s] \in {"yield_done", "yield_error"}
    /\ stream_finally(s)
    /\ UNCHANGED disconnected

\* The client goes away.  Suspended at await request.is_disconnected() the
\* generator sees True and breaks (lines 185-186); suspended at a yield or in
\* the sleep it is cancelled or closed by the server.  Either way nothing
\* but finally runs, and no frame is pushed.
Disconnect(s) ==
    /\ Attached(s)
    /\ ~disconnected[s]
    /\ disconnected' = [disconnected EXCEPT ![s] = TRUE]
    /\ stream_finally(s)

\* Disconnect in its two halves: the client goes away ...
ClientGone(s) ==
    /\ Attached(s)
    /\ ~disconnected[s]
    /\ disconnected' = [disconnected EXCEPT ![s] = TRUE]
    /\ UNCHANGED <<active_runs, detached, store_vars, engine_vars, sub_pc,
                   last_event_index, new_events, ev_idx, frames, attached_early,
                   since_heartbeat, since_push, store_fault, backend_failed,
                   upstream_failed, other_vars>>

\* ... and the generator finds out: at the top of the loop by line 185,
\* at a yield by the server closing it
Detect(s) ==
    /\ \/ sub_pc[s] \in {"check", "sleep"} /\ is_disconnected(s)
       \/ sub_pc[s] \in {"yield_event", "yield_done", "yield_heartbeat", "yield_error"}
          /\ disconnected[s]
    /\ stream_finally(s)
    /\ UNCHANGED disconnected

\* the heartbeat frames a connection may be sent before time stops
MaxBeats == 1

Beats(s) == Len(SelectSeq(frames[s], LAMBDA f : f.type = "heartbeat"))

\* One second passes on every open connection.
Tick ==
    /\ \E s \in Subs : Attached(s)
    /\ \A s \in Subs : Attached(s) => Beats(s) < MaxBeats
    /\ since_heartbeat' =
           [s \in Subs |-> IF Attached(s) /\ since_heartbeat[s] < heartbeat_interval
                           THEN since_heartbeat[s] + 1 ELSE since_heartbeat[s]]
    /\ since_push' =
           [s \in Subs |-> IF Attached(s) /\ since_push[s] < heartbeat_interval
                           THEN since_push[s] + 1 ELSE since_push[s]]
    /\ UNCHANGED <<active_runs, detached, store_vars, engine_vars, sub_pc,
                   last_event_index, new_events, ev_idx, frames, disconnected,
                   attached_early, store_fault, backend_failed, upstream_failed,
                   other_vars>>

Next ==
    \/ create_message
    \/ execute_agent_run_start
    \/ BackendRespond(StreamRequests, 1)
    \/ ToolOutcome
    \/ \E s \in Subs : Attach(s)
    \/ \E s \in Subs : Poll(s)
    \/ \E s \in Subs : Resume(s)
    \/ \E s \in Subs : Close(s)
    \/ \E s \in Subs : Disconnect(s)

Spec == Init /\ [][Next]_vars

\* Spec with the scheduling the event loop gives: a task that can run is run,
\* and the backend's and the tools' transport calls end (they carry timeouts).
\* Clients are not obliged to connect or to go away.
FairSpec ==
    /\ Spec
    /\ WF_vars(execute_agent_run_start)
    /\ WF_vars(BackendRespond(StreamRequests, 1))
    /\ WF_vars(ToolOutcome)
    /\ \A s \in Subs : WF_vars(Poll(s)) /\ WF_vars(Resume(s)) /\ WF_vars(Close(s))

\* One connection with time passing: heartbeats fall due, and the client's
\* going away and the generator's finding out are separate steps.  (In Spec
\* no second passes, so no heartbeat is due there.)
BeatSubs == {1}

NextBeat ==
    \/ create_message
    \/ execute_agent_run_start
    \/ BackendRespond(StreamRequests, 1)
    \/ ToolOutcome
    \/ \E s \in BeatSubs : Attach(s)
    \/ \E s \in BeatSubs : Poll(s)
    \/ \E s \in BeatSubs : Resume(s)
    \/ \E s \in BeatSubs : ResumeHeartbeat(s)
    \/ \E s \in BeatSubs : Close(s)
    \/ \E s \in BeatSubs : ClientGone(s)
    \/ \E s \in BeatSubs : Detect(s)
    \/ Tick

SpecBeat == Init /\ [][NextBeat]_vars

\* A client that reconnects: its second connection is opened after it has
\* disconnected the first.
Reconnect(s, t) ==
    /\ disconnected[s]
    /\ sub_pc[s] = "closed"
    /\ Attach(t)

NextReconnect ==
    \/ create_message
    \/ execute_agent_run_start
    \/ BackendRespond(StreamRequests, 1)
    \/ ToolOutcome
    \/ Attach(1)
    \/ Reconnect(1, 2)
    \/ \E s \in Subs : Poll(s)
    \/ \E s \in Subs : Resume(s)
    \/ \E s \in Subs : Close(s)
    \/ \E s \in Subs : Disconnect(s)

SpecReconnect == Init /\ [][NextReconnect]_vars

\* The engine run from end to end by start_run, on requests for the names
\* the default tools advertise.
NextEndToEnd ==
    \/ create_message
    \/ start_run_begin
    \/ BackendRespond(StreamRequests, MaxToolCalls)
    \/ ToolOutcome

SpecEndToEnd == Init /\ [][NextEndToEnd]_vars

\* The engine runs: both executors of a run, without stream connections.
NextLoop ==
    \/ create_message
    \/ execute_agent_run_start
    \/ start_run_begin
    \/ BackendRespond(EngineRequests, MaxToolCalls)
    \/ ToolOutcome

SpecLoop == Init /\ [][NextLoop]_vars

(***************************************************************************)
(* Two executions of _execute_agent_loop side by side, agent_loop and      *)
(* twin_loop: the same messages and the same backend responses, and tool   *)
(* results that differ in nothing but their success.                       *)
(***************************************************************************)
FlowRequests ==
    { Request(<<"browser">>, ArgUrl), Request(<<"web", "search">>, ArgQuery) }

\* the results of the requests, oks[i] the success of the i-th
ResultsFor(tool_calls, oks) ==
    [i \in 1..Len(tool_calls) |->
        ToolResult(tool_calls[i].name, oks[i],
                   IF oks[i] THEN NoData ELSE [NoData EXCEPT !.error = <<"failed">>])]

FlowStart ==
    /\ agent_loop.pc = "idle"
    /\ twin_loop.pc = "idle"
    /\ LET messages == << Message("system", SYSTEM_PROMPT),
                          Message("user", sanitize_content(UserContent)) >>
       IN  /\ agent_loop' = execute_agent_loop_start(messages)
           /\ twin_loop' = execute_agent_loop_start(messages)
    /\ UNCHANGED <<active_runs, detached, store_vars, driver, exec_pc,
                   agent_responses, yielded, sub_vars, store_fault, backend_failed,
                   upstream_failed, reg_out, memory_vars>>

FlowRespond ==
    /\ agent_loop.pc = "backend" \/ twin_loop.pc = "backend"
    /\ \E response \in Responses(FlowRequests, MaxToolCalls, agent_loop.iteration) :
       \E oks, twin_oks \in [1..Len(response.tool_calls) -> BOOLEAN] :
          /\ agent_loop' =
                 IF agent_loop.pc = "backend"
                 THEN round_with_results(agent_loop, response,
                                         ResultsFor(response.tool_calls, oks))
                 ELSE agent_loop
          /\ twin_loop' =
                 IF twin_loop.pc = "backend"
                 THEN round_with_results(twin_loop, response,
                                         ResultsFor(response.tool_calls, twin_oks))
                 ELSE twin_loop
    /\ UNCHANGED <<active_runs, detached, store_vars, driver, exec_pc,
                   agent_responses, yielded, sub_vars, store_fault, backend_failed,
                   upstream_failed, reg_out, memory_vars>>

NextFlow == FlowStart \/ FlowRespond

SpecFlow == Init /\ [][NextFlow]_vars


(***************************************************************************)
(* The registry on its own: RunManager's methods called in any order on    *)
(* two run ids, as any caller holding run_manager may.  A run id is        *)
(* created once (ids are fresh UUIDs).                                     *)
(***************************************************************************)
RegStatuses == {"queued", "running", "completed", "failed"}
RegKinds == {"token", "done"}

RegCall(op, run_id, index, found, events) ==
    [op |-> op, run_id |-> run_id, index |-> index, found |-> found, events |-> events]

reg_frame == <<detached, store_vars, engine_vars, sub_vars, store_fault,
               backend_failed, upstream_failed, twin_loop, memory_vars>>

RegCreate ==
    \E run_id \in RunIds :
        /\ run_id \notin DOMAIN active_runs
        /\ active_runs' = create_run_data(active_runs, run_id)
        /\ reg_out' = RegCall("create_run_data", run_id, 0, TRUE, <<>>)
        /\ UNCHANGED reg_frame

RegAddEvent ==
    \E run_id \in RunIds, event_type \in RegKinds :
        /\ run_id \in DOMAIN active_runs => Len(active_runs[run_id].events) < MaxLogLen
        /\ active_runs' = add_event(active_runs, run_id, event_type, NoPayload)
        /\ reg_out' = RegCall("add_event", run_id, 0, FALSE, <<>>)
        /\ UNCHANGED reg_frame

RegUpdateStatus ==
    \E run_id \in RunIds, status \in RegStatuses :
        /\ active_runs' = update_status(active_runs, run_id, status)
        /\ reg_out' = RegCall("update_status", run_id, 0, FALSE, <<>>)
        /\ UNCHANGED reg_frame

RegCleanup ==
    \E run_id \in RunIds :
        /\ active_runs' = cleanup_run(active_runs, run_id)
        /\ reg_out' = RegCall("cleanup_run", run_id, 0, FALSE, <<>>)
        /\ UNCHANGED reg_frame

RegGetRunData ==
    \E run_id \in RunIds :
        LET run_data == get_run_data(active_runs, run_id)
        IN  /\ reg_out' = RegCall("get_run_data", run_id, 0, run_data /= <<>>,
                                  IF run_data /= <<>> THEN run_data[1].events ELSE <<>>)
            /\ UNCHANGED <<active_runs, reg_frame>>

RegGetEventsSince ==
    \E run_id \in RunIds, last_index \in 0..(MaxLogLen + 1) :
        /\ reg_out' = RegCall("get_events_since", run_id, last_index, FALSE,
                              get_events_since(active_runs, run_id, last_index))
        /\ UNCHANGED <<active_runs, reg_frame>>

NextRegistry ==
    \/ RegCreate
    \/ RegAddEvent
    \/ RegUpdateStatus
    \/ RegCleanup
    \/ RegGetRunData
    \/ RegGetEventsSince

SpecRegistry == Init /\ [][NextRegistry]_vars

(***************************************************************************)
(* Properties of the event stream and the registry (specification Spec).   *)
(***************************************************************************)
IsTerminalFrame(f) == f.type = "run_completed"

TerminalFrames(s) == { i \in 1..Len(frames[s]) : IsTerminalFrame(frames[s][i]) }

HasTerminalFrame(s) == TerminalFrames(s) /= {}

EntryRemoved == TheRun \in DOMAIN active_runs /\ TheRun \notin DOMAIN active_runs'

\* C1: every connection the client does not disconnect ends with exactly one
\* terminal frame, and no frame follows the terminal frame on any connection.
C1_EndsWithOneTerminalFrame ==
    \A s \in Subs :
        /\ \A i \in TerminalFrames(s) : i = Len(frames[s])
        /\ (sub_pc[s] = "closed" /\ ~disconnected[s])
               => Cardinality(TerminalFrames(s)) = 1

\* the frame of the except branch carries a message and no data
IsStreamErrorFrame(f) == f.type = "error" /\ f.message /= <<>>

\* the frames of the log's events that connection s has been sent
EventFramesOf(s) ==
    SelectSeq(frames[s], LAMBDA f : /\ ~IsTerminalFrame(f)
                                    /\ ~IsStreamErrorFrame(f)
                                    /\ f.type /= "heartbeat")

\* the run's log, also after the entry was deleted from the registry
RunLog == held_run_data(TheRun).events

\* C2: a single subscriber that attached before the run was terminal and
\* never disconnects has been sent every event of the run's log, each as its
\* own frame, by the time the terminal frame is pushed.
C2_AllEventsBeforeTerminalFrame ==
    \A s \in Subs :
        ( /\ \A t \in Subs \ {s} : sub_pc[t] = "idle"
          /\ attached_early[s]
          /\ ~disconnected[s]
          /\ HasTerminalFrame(s) )
        => EventFramesOf(s) = [i \in 1..Len(RunLog) |-> EventFrame(RunLog[i])]

\* C3: the registry entry is never removed while another subscriber is
\* attached that has not been sent the terminal frame.
C3_NoEvictionUnderSubscriber ==
    [][EntryRemoved =>
          \A s \in Subs : (Attached(s) /\ sub_pc'[s] /= "closed") => HasTerminalFrame(s)]_vars

\* C4: the registry entry is removed only when the run's status is terminal.
C4_EvictedOnlyWhenTerminal ==
    [][EntryRemoved => active_runs[TheRun].status \in Terminal]_vars

\* C5: the registry entry of a run that has reached a terminal status is
\* eventually removed, also when no subscriber ever attaches.
C5_EntryEventuallyRemoved ==
    [](( /\ TheRun \in DOMAIN active_runs
         /\ active_runs[TheRun].status \in Terminal )
       => <>(TheRun \notin DOMAIN active_runs))

(***************************************************************************)
(* Properties of the agent loop and of the two executors of a run          *)
(* (specification SpecLoop).                                               *)
(***************************************************************************)
\* C6: the loop calls the reasoning backend at most max_iterations times,
\* once per round, and runs at most max_iterations rounds.
C6_BoundedRounds ==
    /\ agent_loop.backend_calls <= max_iterations
    /\ agent_loop.iteration <= max_iterations
    /\ agent_loop.backend_calls = agent_loop.iteration

C6_Witness ==
    /\ agent_loop.pc = "returned"
    /\ agent_loop.backend_calls = max_iterations
    /\ agent_loop.final_content = FallbackContent

\* the rounds in which the backend requested tools
ToolRounds ==
    { i \in 1..Len(agent_loop.current_messages) :
        /\ agent_loop.current_messages[i].role = "assistant"
        /\ agent_loop.current_messages[i].tool_calls /= <<>> }

\* the status the executor has recorded for the run: execute_agent_run
\* records it in the registry, start_run in the store
RunStatus ==
    IF driver = "execute_agent_run" THEN active_runs[TheRun].status
    ELSE db_runs[TheRun].status

\* the error events of the run: in the registry's log, or among the events
\* start_run yields
ErrorEvents ==
    IF driver = "execute_agent_run"
    THEN { i \in 1..Len(active_runs[TheRun].events) :
             active_runs[TheRun].events[i].event = "error" }
    ELSE { i \in 1..Len(yielded) : yielded[i].type = "error" }

\* the run's final message: the newest message of the thread
FinalMessage == db_messages[Len(db_messages)]

\* C7: a run in which the backend requested tools in every round ends
\* completed, with the fallback message as its final message and without an
\* error event (the store working).
C7_FallbackCompletion ==
    ( /\ exec_pc = "done"
      /\ driver /= "none"
      /\ ~store_fault
      /\ Cardinality(ToolRounds) = max_iterations )
    => /\ RunStatus = "completed"
       /\ FinalMessage = [role |-> "assistant", content |-> FallbackContent]
       /\ ErrorEvents = {}

\* the tool requests and the tool results among the events the loop emitted
LoopToolCalls == SelectSeq(agent_loop.events, LAMBDA e : e.type = "tool_call")
LoopToolResults == SelectSeq(agent_loop.events, LAMBDA e : e.type = "tool_result")

\* the same in the registry's log, where both are events of kind "tool"
LogToolCalls ==
    SelectSeq(active_runs[TheRun].events,
              LAMBDA e : e.event = "tool" /\ e.data.tool_call /= NoCall)
LogToolResults ==
    SelectSeq(active_runs[TheRun].events,
              LAMBDA e : e.event = "tool" /\ e.data.tool_result /= NoResult)

\* the name a tool answers to, for a request by name
ResultNameFor(function_name) ==
    LET t == find_tool(get_default_tools, function_name)
    IN  IF t = 0 THEN function_name ELSE get_default_tools[t].name

\* C8: in the event sequence of a finished run there are as many tool_result
\* events as tool_call events, and the i-th result is that of the i-th call.
C8_CallsMatchResults ==
    exec_pc = "done" =>
        /\ Len(LoopToolCalls) = Len(LoopToolResults)
        /\ \A i \in 1..Len(LoopToolResults) :
              LoopToolResults[i].result.name = ResultNameFor(LoopToolCalls[i].tool_call.name)
        /\ driver = "execute_agent_run" =>
              /\ Len(LogToolCalls) = Len(LogToolResults)
              /\ \A i \in 1..Len(LogToolResults) :
                    LogToolResults[i].data.tool_result.name
                        = ResultNameFor(LogToolCalls[i].data.tool_call.name)

\* the tool-role messages of the loop's history
ToolMessages == SelectSeq(agent_loop.current_messages, LAMBDA m : m.role = "tool")

\* C9: tool requests are executed one at a time in request order: every
\* tool_call event but the newest is directly followed by its tool_result
\* event, the tool-role messages of the history are those of the finished
\* requests in request order, and at most one tool call is in flight.
C9_SequentialTools ==
    /\ \A p \in 1..(Len(agent_loop.events) - 1) :
          agent_loop.events[p].type = "tool_call"
              => /\ agent_loop.events[p + 1].type = "tool_result"
                 /\ agent_loop.events[p + 1].result.name
                        = ResultNameFor(agent_loop.events[p].tool_call.name)
    /\ \A i \in 1..(Len(LoopToolCalls) - 1) :
          LoopToolCalls[i].tool_call.id < LoopToolCalls[i + 1].tool_call.id
    /\ Len(ToolMessages) = Len(LoopToolResults)
    /\ Len(ToolMessages) <= Len(LoopToolCalls)
    /\ \A i \in 1..Len(ToolMessages) :
          ToolMessages[i].tool_call_id = LoopToolCalls[i].tool_call.id
    /\ Len(LoopToolCalls) - Len(LoopToolResults) \in {0, 1}
    /\ agent_loop.pc = "tool" => Len(LoopToolCalls) = Len(LoopToolResults) + 1
    /\ agent_loop.pc \in {"backend", "returned"} => Len(LoopToolCalls) = Len(LoopToolResults)

\* the second request of a round is in flight after the first one went
\* through its transport call
C9_Witness ==
    /\ agent_loop.pc = "tool"
    /\ agent_loop.idx = 2
    /\ Len(ToolMessages) >= 1
    /\ ToolMessages[Len(ToolMessages)].tool_call_id = agent_loop.tool_calls[1].id
    /\ ToolMessages[Len(ToolMessages)].data.source /= ""

ToolCallAt(p) == agent_loop.events[p].type = "tool_call"

\* the event after position p is a failed tool_result
FailedResultFollows(p) ==
    /\ p < Len(agent_loop.events)
    /\ agent_loop.events[p + 1].type = "tool_result"
    /\ ~agent_loop.events[p + 1].result.ok

UnknownTool(function_name) == find_tool(get_default_tools, function_name) = 0

\* the text contains the name
Names(text, name) ==
    \E i \in 0..(Len(text) - Len(name)) : SubSeq(text, i + 1, i + Len(name)) = name

\* C11: a request for a tool that is not registered gets a failed tool_result
\* whose error names the requested tool, and the loop goes on (it does not
\* end at that request).
C11_UnknownToolNonFatal ==
    \A p \in 1..Len(agent_loop.events) :
        (ToolCallAt(p) /\ UnknownTool(agent_loop.events[p].tool_call.name))
        => /\ FailedResultFollows(p)
           /\ Names(agent_loop.events[p + 1].result.data.error,
                    agent_loop.events[p].tool_call.name)

\* C12: a request with malformed arguments gets a failed tool_result and the
\* loop goes on: the run does not fail at that request.
C12_MalformedArgsNonFatal ==
    /\ agent_loop.exc /= <<"JSONDecodeError">>
    /\ \A p \in 1..Len(agent_loop.events) :
          (ToolCallAt(p) /\ agent_loop.events[p].tool_call.arguments.form = "invalid")
          => FailedResultFollows(p)

\* the requests whose tool call raises: a registered tool called with
\* arguments that are no argument map
RaisingCallAt(p) ==
    /\ ToolCallAt(p)
    /\ ~UnknownTool(agent_loop.events[p].tool_call.name)
    /\ agent_loop.events[p].tool_call.arguments.form = "array"

\* C13: when the call of a registered tool raises, the invoker returns a
\* failed result with an error message, and the exception does not leave the
\* loop.
C13_ToolExceptionContained ==
    /\ agent_loop.exc /= <<"TypeError">>
    /\ \A p \in 1..Len(agent_loop.events) :
          RaisingCallAt(p)
          => /\ FailedResultFollows(p)
             /\ agent_loop.events[p + 1].result.data.error /= <<>>

\* a run with a raising tool call has completed
C13_Witness ==
    /\ exec_pc = "done"
    /\ RunStatus = "completed"
    /\ \E p \in 1..Len(agent_loop.events) : RaisingCallAt(p)

\* C14: the result of a tool request whose transport call failed has
\* success = false.
C14_UpstreamFailureReported ==
    \A i \in 1..Len(LoopToolResults) :
        LoopToolCalls[i].tool_call.id \in upstream_failed
        => ~LoopToolResults[i].result.ok

(***************************************************************************)
(* Loop control flow and tool results (specification SpecFlow).            *)
(***************************************************************************)
EventKinds(L) == [i \in 1..Len(L.events) |-> L.events[i].type]

MessageRoles(L) == [i \in 1..Len(L.current_messages) |-> L.current_messages[i].role]

CountOf(seq, x) == Cardinality({ i \in 1..Len(seq) : seq[i] = x })

\* the success flags of the tool results of a loop, in order
ResultFlags(L) ==
    LET results == SelectSeq(L.events, LAMBDA e : e.type = "tool_result")
    IN  [i \in 1..Len(results) |-> results[i].result.ok]

\* C15: two runs with the same backend responses whose tool results differ
\* only in success are at the same point of the loop, have made the same
\* number of rounds and emitted the same sequence of event kinds; in each,
\* every tool request has one tool_result event and one tool-role message.
C15_FlowIndependentOfSuccess ==
    /\ agent_loop.pc = twin_loop.pc
    /\ agent_loop.iteration = twin_loop.iteration
    /\ EventKinds(agent_loop) = EventKinds(twin_loop)
    /\ MessageRoles(agent_loop) = MessageRoles(twin_loop)
    /\ \A L \in {agent_loop, twin_loop} :
          /\ CountOf(EventKinds(L), "tool_result") = CountOf(EventKinds(L), "tool_call")
          /\ CountOf(MessageRoles(L), "tool") = CountOf(EventKinds(L), "tool_call")

\* both runs used up their rounds, one with a failed result where the other
\* has a successful one
C15_Witness ==
    /\ agent_loop.pc = "returned"
    /\ twin_loop.pc = "returned"
    /\ agent_loop.iteration = max_iterations
    /\ \E i \in 1..Len(ResultFlags(agent_loop)) :
          ResultFlags(agent_loop)[i] /= ResultFlags(twin_loop)[i]

(***************************************************************************)
(* Properties of the registry's operations (specification SpecRegistry).   *)
(***************************************************************************)
\* the runs that have an entry before and after a step
Kept == (DOMAIN active_runs) \cap (DOMAIN active_runs')

StatusRank(status) ==
    CASE status = "queued" -> 0
      [] status = "running" -> 1
      [] OTHER -> 2

\* C16: the status of a run only moves forward along
\* queued -> running -> {completed | failed}.
C16_StatusForwardOnly ==
    [][\A r \in Kept :
          \/ active_runs'[r].status = active_runs[r].status
          \/ StatusRank(active_runs[r].status) < StatusRank(active_runs'[r].status)]_vars

\* C17: once the status of a run is terminal, a call that changes its log
\* can only have appended a closing event (done or error).
C17_LogFrozenAfterTerminal ==
    [][\A r \in Kept :
          (active_runs[r].status \in Terminal
              /\ active_runs'[r].events /= active_runs[r].events)
          => \E e \in {"done", "error"} :
                active_runs'[r].events
                    = Append(active_runs[r].events, [event |-> e, data |-> NoPayload])]_vars

\* C18: a log is append-only: a step leaves the log of a kept run as it is
\* or puts one event after its last, and add_event on a known run puts the
\* new event at the index equal to the previous length.
C18_LogAppendOnly ==
    [][\A r \in Kept :
          LET old == active_runs[r].events
              new == active_runs'[r].events
          IN  /\ \/ new = old
                 \/ Len(new) = Len(old) + 1 /\ SubSeq(new, 1, Len(old)) = old
              /\ (reg_out'.op = "add_event" /\ reg_out'.run_id = r)
                    => Len(new) = Len(old) + 1]_vars

\* add_event has filled a log with events of two kinds
C18_Witness ==
    /\ reg_out.op = "add_event"
    /\ reg_out.run_id \in DOMAIN active_runs
    /\ Len(active_runs[reg_out.run_id].events) = MaxLogLen
    /\ active_runs[reg_out.run_id].events[1].event
           /= active_runs[reg_out.run_id].events[MaxLogLen].event

\* the events of a log from 0-based index i on
EventsFrom(events, i) ==
    [k \in 1..(IF Len(events) > i THEN Len(events) - i ELSE 0) |-> events[i + k]]

\* C19: get_events_since(run_id, i), i >= 0, returns the events of the log
\* with index >= i in log order, and the empty list when the run is unknown
\* or i is at or beyond the length of the log.
C19_EventsSince ==
    reg_out.op = "get_events_since" =>
        /\ reg_out.run_id \in DOMAIN active_runs
              => reg_out.events = EventsFrom(active_runs[reg_out.run_id].events,
                                             reg_out.index)
        /\ reg_out.run_id \notin DOMAIN active_runs => reg_out.events = <<>>
        /\ ( /\ reg_out.run_id \in DOMAIN active_runs
             /\ reg_out.index >= Len(active_runs[reg_out.run_id].events) )
              => reg_out.events = <<>>

\* a proper, non-empty suffix has been returned
C19_Witness ==
    /\ reg_out.op = "get_events_since"
    /\ reg_out.run_id \in DOMAIN active_runs
    /\ reg_out.index = 1
    /\ Len(active_runs[reg_out.run_id].events) = 2
    /\ reg_out.events = <<active_runs[reg_out.run_id].events[2]>>

\* C20: a call of add_event, update_status, cleanup_run, get_run_data or
\* get_events_since for a run id without an entry leaves the registry as it
\* is; get_run_data then finds nothing and get_events_since returns the
\* empty list.
C20_UnknownRunNoOp ==
    [][( /\ reg_out'.op \in {"add_event", "update_status", "cleanup_run",
                             "get_run_data", "get_events_since"}
         /\ reg_out'.run_id \notin DOMAIN active_runs )
       => /\ active_runs' = active_runs
          /\ ~reg_out'.found
          /\ reg_out'.events = <<>>]_vars

\* update_status was called for a run without an entry while the other run
\* has one, with events
C20_Witness ==
    /\ reg_out.op = "update_status"
    /\ reg_out.run_id \notin DOMAIN active_runs
    /\ \E r \in DOMAIN active_runs : active_runs[r].events /= <<>>


(***************************************************************************)
(* Properties of the stream's fallback, reconnection and timing.           *)
(***************************************************************************)
\* the terminal frame of connection s was made from the registry's entry
\* (lines 207-212 put no message in it)
TerminalFromRegistry(s) ==
    \E i \in TerminalFrames(s) : frames[s][i].message = <<>>

\* C21: a subscriber that attaches after the run has reached a terminal
\* status, while the entry is still in the registry, is sent the terminal
\* frame and no other frame.
C21_LateSubscriberOnlyTerminalFrame ==
    \A s \in Subs :
        (~attached_early[s] /\ TerminalFromRegistry(s)) => Len(frames[s]) = 1

\* C22: when the run is absent from the registry and the stored run shows a
\* terminal status (the store being readable), the pass through the loop
\* pushes exactly one frame, the terminal frame with that status, and no
\* event frame; the stream then closes without another frame.
C22_DurableTerminalOneFrameThenClose ==
    [][\A s \in Subs :
          /\ ( /\ sub_pc[s] \in {"check", "sleep"}
               /\ sub_pc'[s] \notin {sub_pc[s], "yield_error"}
               /\ ~disconnected'[s]
               /\ TheRun \notin DOMAIN active_runs
               /\ TheRun \in DOMAIN db_runs
               /\ db_runs[TheRun].status \in Terminal )
             => /\ Len(frames'[s]) = Len(frames[s]) + 1
                /\ SubSeq(frames'[s], 1, Len(frames[s])) = frames[s]
                /\ IsTerminalFrame(frames'[s][Len(frames'[s])])
                /\ frames'[s][Len(frames'[s])].status = db_runs[TheRun].status
                /\ sub_pc'[s] = "yield_done"
          /\ (sub_pc[s] = "yield_done" /\ sub_pc'[s] /= "yield_done")
             => (sub_pc'[s] = "closed" /\ frames'[s] = frames[s])]_vars

\* a connection that found the executed run only in the store (another
\* connection's end had removed the entry) was sent the terminal frame alone
\* and is closed
C22_Witness ==
    \E s \in Subs :
        /\ sub_pc[s] = "closed"
        /\ ~disconnected[s]
        /\ Len(frames[s]) = 1
        /\ IsTerminalFrame(frames[s][1])
        /\ frames[s][1].message /= <<>>
        /\ frames[s][1].status = "completed"
        /\ driver = "execute_agent_run"

\* C23: when the run is absent from the registry and the stored run does not
\* show a terminal status, the first pass through the loop reports
\* "Run not found" and the stream goes on to close; it does not go to sleep
\* to poll again.
C23_AbsentNonTerminalReportsNotFound ==
    [][\A s \in Subs :
          ( /\ sub_pc[s] = "check"
            /\ sub_pc'[s] /= "check"
            /\ ~disconnected'[s]
            /\ TheRun \notin DOMAIN active_runs
            /\ TheRun \in DOMAIN db_runs
            /\ db_runs[TheRun].status \notin Terminal
            \* the store could be read
            /\ frames'[s] /= Append(frames[s], ErrorFrame(<<"OperationalError">>)) )
          => /\ sub_pc'[s] = "yield_error"
             /\ frames'[s] = Append(frames[s], ErrorFrame(<<"Run not found">>))]_vars

\* the events of the run's log, none when the run never had an entry
LoggedEvents ==
    IF TheRun \in DOMAIN active_runs \/ TheRun \in DOMAIN detached
    THEN RunLog ELSE <<>>

\* C24: a client disconnects connection 1 and reconnects as connection 2.
\* Once connection 2 has ended with the terminal frame, every event of the log with index after the
\* cursor connection 1 had reached has been delivered on connection 2, and
\* the client has seen at most two terminal frames in all.
C24_ReconnectDeliversAfterCursor ==
    (disconnected[1] /\ sub_pc[2] = "closed" /\ ~disconnected[2]
        /\ HasTerminalFrame(2))
    => /\ \A i \in (last_event_index[1] + 1)..Len(LoggedEvents) :
              \E k \in 1..Len(frames[2]) : frames[2][k] = EventFrame(LoggedEvents[i])
       /\ Cardinality(TerminalFrames(1)) + Cardinality(TerminalFrames(2)) <= 2

\* C25: once the client of a connection has gone, no frame of any kind is
\* pushed on that connection, and the only move the connection makes is to
\* closed.
C25_NoFrameAfterDisconnect ==
    [][\A s \in Subs :
          disconnected[s]
          => /\ frames'[s] = frames[s]
             /\ sub_pc'[s] \in {sub_pc[s], "closed"}]_vars

\* a connection whose client went away while events of the log were waiting
\* to be sent, now closed without them
C25_Witness ==
    \E s \in Subs :
        /\ disconnected[s]
        /\ sub_pc[s] = "closed"
        /\ frames[s] /= <<>>
        /\ ~HasTerminalFrame(s)
        /\ TheRun \in DOMAIN detached
        /\ Len(detached[TheRun].events) > last_event_index[s]

\* connection s is pushed a heartbeat frame in this step
HeartbeatPushed(s) ==
    /\ Len(frames'[s]) = Len(frames[s]) + 1
    /\ frames'[s][Len(frames'[s])].type = "heartbeat"

\* C26: a heartbeat frame is pushed on a connection only when no frame has
\* been pushed on it for at least heartbeat_interval seconds; an event frame
\* counts as activity.
C26_HeartbeatOnlyAfterSilence ==
    [][\A s \in Subs : HeartbeatPushed(s) => since_push[s] >= heartbeat_interval]_vars

\* C27: no frame made from an event of the run's log carries the terminal
\* frame's event label.
C27_TerminalLabelDistinct ==
    \A s \in Subs : \A i \in 1..Len(frames[s]) :
        ~IsTerminalFrame(frames[s][i])
        => frames[s][i].label /= TerminalFrame("completed", <<>>).label

(***************************************************************************)
(* Properties of the registry's status update (specification SpecRegistry) *)
(* and of the default tools and the run from end to end (SpecEndToEnd).    *)
(***************************************************************************)
\* the step is a call update_status(r, "completed") on a run that has an entry
SetCompleted(r) ==
    /\ r \in DOMAIN active_runs
    /\ reg_out' = RegCall("update_status", r, 0, FALSE, <<>>)
    /\ r \in DOMAIN active_runs' => active_runs'[r].status = "completed"

\* C28: after update_status(run, completed) get_run_data returns the run's
\* entry with status completed, and get_events_since(run, 0) returns the
\* events that had been appended, unchanged and in order.
C28_CompletedRunStaysQueryable ==
    [][\A r \in RunIds :
          SetCompleted(r)
          => /\ get_run_data(active_runs', r) =
                    << [status |-> "completed", events |-> active_runs[r].events] >>
             /\ get_events_since(active_runs', r, 0) = active_runs[r].events]_vars

\* a run with a full log has just been set to completed
C28_Witness ==
    \E r \in RunIds :
        /\ reg_out = RegCall("update_status", r, 0, FALSE, <<>>)
        /\ r \in DOMAIN active_runs
        /\ active_runs[r].status = "completed"
        /\ Len(active_runs[r].events) = MaxLogLen

\* the function names the default tools advertise in their schemas
AdvertisedNames ==
    { get_default_tools[i].schema_name : i \in 1..Len(get_default_tools) }

\* C29: a request for a name that a default tool advertises resolves to a
\* tool, and to the tool that advertises the name: the name a tool is
\* registered under is the name in its schema.
C29_AdvertisedNamesResolve ==
    \A p \in 1..Len(agent_loop.events) :
        LET e == agent_loop.events[p]
            t == find_tool(get_default_tools, e.tool_call.name)
        IN  (e.type = "tool_call" /\ e.tool_call.name \in AdvertisedNames)
            => /\ t /= 0
               /\ get_default_tools[t].schema_name = e.tool_call.name

\* the events of the agent's event stream as start_run passes them on (lines
\* 292-293), before the run_completed it yields at its end
EndToEndLog == SelectSeq(yielded, LAMBDA e : e.type /= "run_completed")

\* the run of the end-to-end scenario has ended: round 1 brought one request,
\* for web_search, round 2 plain content, and no transport call failed
EndToEndScenario ==
    /\ driver = "start_run"
    /\ exec_pc = "done"
    /\ ~backend_failed
    /\ upstream_failed = {}
    /\ agent_loop.backend_calls = 2
    /\ Len(LoopToolCalls) = 1
    /\ LoopToolCalls[1].tool_call.name = <<"web", "_", "search">>
    /\ LoopToolCalls[1].tool_call.arguments = ArgQuery

C31_EventFramesInLogOrder ==
    \A s \in Subs :
        (Attached(s) /\ TheRun \in DOMAIN active_runs)
        => LET pushed == EventFramesOf(s)
               log == active_runs[TheRun].events
           IN  /\ Len(pushed) = last_event_index[s]
                                + (IF sub_pc[s] = "yield_event" THEN 1 ELSE 0)
               /\ Len(pushed) <= Len(log)
               /\ \A k \in 1..Len(pushed) : pushed[k] = EventFrame(log[k])

\* a connection that has been sent an event frame, then a heartbeat, then
\* another frame, with two event frames in all
C31_Witness ==
    \E s \in Subs :
        /\ Attached(s)
        /\ TheRun \in DOMAIN active_runs
        /\ Beats(s) >= 1
        /\ Len(EventFramesOf(s)) >= 2
        /\ frames[s][1].type /= "heartbeat"
        /\ \E i \in 2..(Len(frames[s]) - 1) : frames[s][i].type = "heartbeat"

\* the kinds of the events of the registry's log of the run
LogKinds ==
    [i \in 1..Len(active_runs[TheRun].events) |-> active_runs[TheRun].events[i].event]

\* C32: whenever the registry holds the run with a terminal status, its log
\* already contains the closing event: done for completed, error for failed
\* (an entry is never created again, so an entry that is present has been
\* present throughout).
C32_ClosingEventBeforeTerminalStatus ==
    (TheRun \in DOMAIN active_runs /\ active_runs[TheRun].status \in Terminal)
    => /\ active_runs[TheRun].status = "completed" => CountOf(LogKinds, "done") >= 1
       /\ active_runs[TheRun].status = "failed" => CountOf(LogKinds, "error") >= 1

\* a run that used a tool and completed, its log ending with the done event
C32_Witness ==
    /\ TheRun \in DOMAIN active_runs
    /\ active_runs[TheRun].status = "completed"
    /\ Len(LogKinds) >= 4
    /\ LogKinds[Len(LogKinds)] = "done"

\* the positions of the closing events in the registry's log of the run
ClosingEvents == { i \in 1..Len(LogKinds) : LogKinds[i] \in {"done", "error"} }

\* C33: the registry's log of a run holds at most one closing event (done
\* or error), and the closing event is the log's last event.
C33_AtMostOneClosingEvent ==
    TheRun \in DOMAIN active_runs
    => /\ Cardinality(ClosingEvents) <= 1
       /\ \A i \in ClosingEvents : i = Len(LogKinds)

\* C34: when the run has ended (and the store took no fault), the stored
\* run shows a status that the check constraint admits and that the stream
\* recognises as terminal, also for a run that failed.
C34_StoredStatusTerminal ==
    (exec_pc = "done" /\ ~store_fault /\ TheRun \in DOMAIN db_runs)
    => /\ db_runs[TheRun].status \in check_run_status
       /\ db_runs[TheRun].status \in Terminal

\* C35: once the run's registry entry has been removed while the run is
\* executing, no later step changes the registry (the executor's add_event
\* and update_status find no entry and the entry is not created again), and
\* the step that ends the run leaves the stored run with a terminal status
\* and its content, unless the store itself failed.
C35_RemovalDoesNotStopRun ==
    [][ (exec_pc = "running" /\ TheRun \notin DOMAIN active_runs)
        => /\ active_runs' = active_runs
           /\ (exec_pc' = "done" /\ ~store_fault')
              => /\ db_runs'[TheRun].status \in Terminal
                 /\ db_runs'[TheRun].result /= <<>> ]_vars

\* the part of C35 that concerns a run that ends normally
C35_RemovedRunThatSucceeds ==
    [][ (exec_pc = "running" /\ TheRun \notin DOMAIN active_runs)
        => /\ active_runs' = active_runs
           /\ (exec_pc' = "done" /\ ~store_fault' /\ ~backend_failed')
              => /\ db_runs'[TheRun].status = "completed"
                 /\ db_runs'[TheRun].result /= <<>> ]_vars

\* C36: the history start_run hands to the backend in round 1 is the system
\* directive, then the most recent stored messages of the thread (at most
\* history_limit of them, oldest first), then the new user utterance, and
\* the utterance occurs in it exactly once.
RoundOneHistory == agent_loop.current_messages

NewUtterance == Message("user", sanitize_content(UserContent))

C36_RoundOneHistory ==
    (driver = "start_run" /\ agent_loop.pc = "backend" /\ agent_loop.iteration = 1)
    => LET h == RoundOneHistory
           stored == SubSeq(h, 2, Len(h) - 1)
       IN  /\ Len(h) >= 2
           /\ h[1] = Message("system", SYSTEM_PROMPT)
           /\ h[Len(h)] = NewUtterance
           /\ Len(stored) <= history_limit
           /\ stored = [i \in 1..Len(stored) |->
                          Message(last_n(db_messages, history_limit)[i].role,
                                  last_n(db_messages, history_limit)[i].content)]
           /\ Cardinality({ i \in 1..Len(h) : h[i] = NewUtterance }) = 1

(***************************************************************************)
(* Memory (backend/agent/memory.py): a list of messages trimmed to its     *)
(* newest max_messages after every addition.                               *)
(***************************************************************************)
\* Python's seq[-n:] for an integer n: the slice starts at index -n, which
\* counts from the end when it is negative (and stops at the head), and from
\* the head when it is not (-0 is 0: the slice seq[0:] is the whole list).
slice_from_minus(seq, n) ==
    LET start == IF -n < 0
                 THEN (IF Len(seq) - n > 0 THEN Len(seq) - n ELSE 0)
                 ELSE (IF -n < Len(seq) THEN -n ELSE Len(seq))
    IN  SubSeq(seq, start + 1, Len(seq))

\* Memory.__init__
Memory(max_messages) ==
    [messages |-> <<>>, max_messages |-> max_messages, session_id |-> <<>>]

\* the message dict add_message builds; metadata is optional, {} when None
MemoryMessage(role, content, now, metadata) ==
    [role |-> role, content |-> content, timestamp |-> now,
     metadata |-> IF metadata = <<>> THEN {} ELSE metadata[1]]

\* Memory.add_message
add_message(M, role, content, now, metadata) ==
    LET appended == Append(M.messages, MemoryMessage(role, content, now, metadata))
    IN  [M EXCEPT !.messages =
              IF Len(appended) > M.max_messages
              THEN slice_from_minus(appended, M.max_messages)
              ELSE appended]

memory_frame == <<active_runs, detached, store_vars, engine_vars, sub_vars,
                  store_fault, backend_failed, upstream_failed, twin_loop, reg_out>>

MemoryRoles == {"user", "assistant"}

MemoryCreate ==
    /\ memory = <<>>
    /\ \E max_messages \in 0..MaxLimit : memory' = <<Memory(max_messages)>>
    /\ UNCHANGED <<added, memory_frame>>

\* the clock of datetime.now() is the number of the call
MemoryAdd ==
    /\ memory /= <<>>
    /\ Len(added) < MaxAdds
    /\ \E role \in MemoryRoles, metadata \in {<<>>, <<{"source"}>>} :
          LET now == Len(added) + 1
          IN  /\ memory' = <<add_message(memory[1], role, <<"text">>, now, metadata)>>
              /\ added' = Append(added, MemoryMessage(role, <<"text">>, now, metadata))
    /\ UNCHANGED memory_frame

NextMemory ==
    \/ MemoryCreate
    \/ MemoryAdd

SpecMemory == Init /\ [][NextMemory]_vars

\* C37: whatever max_messages >= 0 the Memory was constructed with, after any
\* sequence of add_message calls it holds at most max_messages messages, and
\* they are the most recently added ones in the order they were added.
C37_MemoryKeepsNewest ==
    memory /= <<>>
    => LET M == memory[1]
           kept == IF Len(added) < M.max_messages THEN Len(added) ELSE M.max_messages
       IN  /\ Len(M.messages) <= M.max_messages
           /\ M.messages = SubSeq(added, Len(added) - kept + 1, Len(added))

\* the part of C37 that concerns a Memory constructed with max_messages >= 1
C37_PositiveLimitKeepsNewest ==
    (memory /= <<>> /\ memory[1].max_messages >= 1)
    => LET M == memory[1]
           kept == IF Len(added) < M.max_messages THEN Len(added) ELSE M.max_messages
       IN  /\ Len(M.messages) <= M.max_messages
           /\ M.messages = SubSeq(added, Len(added) - kept + 1, Len(added))

=============================================================================
